---- MODULE Spec2Model ----
(***************************************************************************)
(* Model of gateware/jt51synth.py: the JT51Synth top-level module.         *)
(*                                                                         *)
(* create_descriptors is a pure function of with_midi_in and               *)
(* MAX_PACKET_SIZE; elaborate builds the USB device (control endpoint,     *)
(* stall-only request handler, stream endpoints) and adds the synchronous  *)
(* statements of the "usb" clock domain that connect ep1_out.stream to     *)
(* synthmodule.midi_stream.  After elaboration the model steps the usb     *)
(* clock (UsbClock), lets the host write bytes to EP1 OUT (HostWrite),     *)
(* issue control requests (ControlRequest) and read descriptors            *)
(* (GetDescriptor).                                                        *)
(***************************************************************************)
EXTENDS Integers, Sequences, FiniteSets

VARIABLES
    with_midi_in,   \* class attribute JT51Synth.with_midi_in
    phase,          \* "constructed" before elaborate(), "elaborated" after
    descriptors,    \* the collection returned by create_descriptors()
    endpoints,      \* stream endpoints handed to usb.add_endpoint, in order
    fifo,           \* bytes held by ep1_out, head = ep1_out.stream.payload
    hostBytes,      \* number of bytes the host has written to EP1 OUT
    ep_ready,       \* register ep1_out.stream.ready
    midi_valid,     \* register synthmodule.midi_stream.valid
    midi_payload,   \* register synthmodule.midi_stream.payload
    midi_ready,     \* synthmodule.midi_stream.ready, driven by SynthModule
    delivered,      \* bytes ep1_out has handed over (valid and ready)
    observed,       \* bytes SynthModule has taken from midi_stream
    cycle,          \* usb clock cycles since reset
    setup,          \* the last control request's setup packet
    gateStalled,    \* the stall-only handler stalls the last request
    response,       \* per descriptor kind, the last response served (<<>>: none yet)
    served          \* descriptor requests served

vars == <<with_midi_in, phase, descriptors, endpoints, fifo, hostBytes,
          ep_ready, midi_valid, midi_payload, midi_ready, delivered,
          observed, cycle, setup, gateStalled, response, served>>

streamVars == <<fifo, hostBytes, ep_ready, midi_valid, midi_payload,
                midi_ready, delivered, observed, cycle>>

controlVars == <<setup, gateStalled>>

descriptorVars == <<response, served>>

buildVars == <<with_midi_in, phase, descriptors, endpoints>>

----------------------------------------------------------------------------
(* Bounds of the model *)

MaxCycles == 4

MaxHostBytes == 2

MaxServed == 2

\* The byte values the host sends (0x09 and 0x90 of the USB-MIDI Note-On event).
Bytes == {9, 144}

----------------------------------------------------------------------------
(* Program constants *)

MAX_PACKET_SIZE == 512

USBDirection_OUT == 0

USBDirection_IN == 1

RequestTypes == {"STANDARD", "CLASS", "VENDOR", "RESERVED"}

RequestCodes == {"GET_STATUS", "SET_FEATURE"}

DescriptorKinds == {"Device", "Configuration"}

NoSetup == [type |-> "none", request |-> "none"]

NoResponse == <<>>

----------------------------------------------------------------------------
(* usb_protocol.types.USBDirection *)

\* USBDirection.to_endpoint_address(self, endpoint_number):
\* endpoint_number | (1 << 7) for IN, endpoint_number for OUT.
to_endpoint_address(direction, endpoint_number) ==
    IF direction = USBDirection_IN
    THEN IF (endpoint_number \div 128) % 2 = 1
         THEN endpoint_number
         ELSE endpoint_number + 128
    ELSE endpoint_number

\* USBDirection.from_endpoint_address(cls, address), a classmethod: the
\* direction encoded in an address, cls(address >> 7).  Called on a member
\* (USBDirection.IN.from_endpoint_address) the member is not an argument.
from_endpoint_address(address) == address \div 128

\* The fields of a bEndpointAddress: D7 the direction, D3..0 the number.
AddressDirection(address) == (address \div 128) % 2

AddressNumber(address) == address % 16

----------------------------------------------------------------------------
(* create_descriptors: the emitters, in the order the code fills them in.  *)
(* Every subordinate descriptor of the class-specific streaming interface  *)
(* is a record of one shape; a field an emitter does not have is empty.    *)

Jack(emitter, id, type, sources) ==
    [emitter |-> emitter, bJackID |-> id, bJackType |-> type,
     sources |-> sources, bEndpointAddress |-> 0, wMaxPacketSize |-> 0,
     assoc |-> <<>>]

StandardEndpoint(emitter, address, size) ==
    [emitter |-> emitter, bJackID |-> 0, bJackType |-> "",
     sources |-> <<>>, bEndpointAddress |-> address, wMaxPacketSize |-> size,
     assoc |-> <<>>]

ClassSpecificEndpoint(jacks) ==
    [emitter |-> "ClassSpecificMidiStreamingBulkDataEndpoint", bJackID |-> 0,
     bJackType |-> "", sources |-> <<>>, bEndpointAddress |-> 0,
     wMaxPacketSize |-> 0, assoc |-> jacks]

outToHostJack == Jack("MidiOutJack", 1, "EMBEDDED", <<2>>)

inToDeviceJack == Jack("MidiInJack", 2, "EXTERNAL", <<>>)

inFromHostJack == Jack("MidiInJack", 3, "EMBEDDED", <<>>)

\* Variant of outFromDeviceJack: its source is jack 2, which exists only with
\* with_midi_in.
outFromDeviceJack_dangling == Jack("MidiOutJack", 4, "EXTERNAL", <<2>>)

outFromDeviceJack == Jack("MidiOutJack", 4, "EXTERNAL", <<3>>)

outEndpoint ==
    StandardEndpoint("StandardMidiStreamingBulkDataEndpoint",
                     to_endpoint_address(USBDirection_OUT, 1), MAX_PACKET_SIZE)

outMidiEndpoint == ClassSpecificEndpoint(<<3>>)

inEndpoint ==
    StandardEndpoint("StandardMidiStreamingDataEndpoint",
                     from_endpoint_address(1), MAX_PACKET_SIZE)

inMidiEndpoint == ClassSpecificEndpoint(<<1>>)

\* Variant of bNumEndpoints: the count does not follow the flag.
bNumEndpoints_fixed(flag) == 1

\* interface.bNumEndpoints = 2 if self.with_midi_in else 1
bNumEndpoints(flag) == IF flag THEN 2 ELSE 1

\* Variant of jackDescriptors: the to-host jacks are added after jacks 3, 4.
jackDescriptors_hostLast(flag) ==
    <<inFromHostJack, outFromDeviceJack>>
    \o (IF flag THEN <<outToHostJack, inToDeviceJack>> ELSE <<>>)

\* Variant of jackDescriptors: the to-host jacks are added whatever the flag.
jackDescriptors_always(flag) ==
    <<outToHostJack, inToDeviceJack, inFromHostJack, outFromDeviceJack>>

\* The jack descriptors added to streamingInterface, in the order added.
jackDescriptors(flag) ==
    (IF flag THEN <<outToHostJack, inToDeviceJack>> ELSE <<>>)
    \o <<inFromHostJack, outFromDeviceJack>>

\* The endpoint descriptors added to streamingInterface, in the order added.
endpointDescriptors(flag) ==
    <<outEndpoint, outMidiEndpoint>>
    \o (IF flag THEN <<inEndpoint, inMidiEndpoint>> ELSE <<>>)

DeviceDescriptor ==
    [bcdUSB |-> "2.00", bDeviceClass |-> 239, bDeviceSubclass |-> 2,
     bDeviceProtocol |-> 1, idVendor |-> 5840, idProduct |-> 3899,
     iManufacturer |-> "N/A", iProduct |-> "JT51-Synth",
     iSerialNumber |-> "0001", bcdDevice |-> "0.01",
     bNumConfigurations |-> 1]

create_descriptors(flag) ==
    [device |-> DeviceDescriptor,
     config |->
        [interface |-> [bInterfaceNumber |-> 0,
                        bNumEndpoints |-> bNumEndpoints(flag)],
         streamingInterface |->
            jackDescriptors(flag) \o endpointDescriptors(flag)]]

NoDescriptors ==
    [device |-> <<>>,
     config |-> [interface |-> [bInterfaceNumber |-> 0, bNumEndpoints |-> 0],
                 streamingInterface |-> <<>>]]

----------------------------------------------------------------------------
(* elaborate: the endpoints and the request handler *)

ep1_out ==
    [endpoint_number |-> 1, direction |-> USBDirection_OUT,
     max_packet_size |-> MAX_PACKET_SIZE]

ep1_in ==
    [endpoint_number |-> 1, direction |-> USBDirection_IN,
     max_packet_size |-> MAX_PACKET_SIZE]

addedEndpoints(flag) ==
    <<ep1_out>> \o (IF flag THEN <<ep1_in>> ELSE <<>>)

\* Variant of stall_condition: Reserved requests are not stalled.
stall_condition_vendorOnly(s) == s.type = "VENDOR"

\* stall_condition = lambda setup: (setup.type == VENDOR) | (setup.type == RESERVED)
stall_condition(s) == (s.type = "VENDOR") \/ (s.type = "RESERVED")

----------------------------------------------------------------------------
(* elaborate: the synchronous statements of the usb domain.  A statement   *)
(* lhs.eq(rhs) added to m.d.usb loads register lhs with rhs at every usb   *)
(* clock edge; of several statements driving one register the one added    *)
(* last takes effect.  The stream's first and last markers are copied by   *)
(* stream_eq exactly as payload is and are left out.                       *)

\* m.d.usb += ep1_out.stream.ready.eq(1)
always_ready == <<[lhs |-> "ep1_out.stream.ready", rhs |-> "1"]>>

\* synthmodule.midi_stream.stream_eq(ep1_out.stream), that is
\* ep1_out.stream.attach(synthmodule.midi_stream): valid and payload go to
\* midi_stream, ready comes back from it.
stream_eq ==
    <<[lhs |-> "midi_stream.valid",    rhs |-> "ep1_out.stream.valid"],
      [lhs |-> "midi_stream.payload",  rhs |-> "ep1_out.stream.payload"],
      [lhs |-> "ep1_out.stream.ready", rhs |-> "midi_stream.ready"]>>

\* The statements of m.d.usb in the order elaborate adds them.
usb_statements == always_ready \o stream_eq

\* ep1_out.stream.valid: the endpoint holds a byte.
ep_valid == fifo # <<>>

\* ep1_out.stream.payload: the byte at the head of the endpoint's buffer.
ep_payload == IF fifo # <<>> THEN Head(fifo) ELSE 0

\* The value of a signal in the current cycle.
Signal(name) ==
    CASE name = "1"                      -> TRUE
      [] name = "ep1_out.stream.valid"   -> ep_valid
      [] name = "ep1_out.stream.payload" -> ep_payload
      [] name = "ep1_out.stream.ready"   -> ep_ready
      [] name = "midi_stream.valid"      -> midi_valid
      [] name = "midi_stream.payload"    -> midi_payload
      [] name = "midi_stream.ready"      -> midi_ready

Drivers(stmts, reg) == {i \in 1..Len(stmts) : stmts[i].lhs = reg}

\* The statement that takes effect for a register: the last one added.
LastDriver(stmts, reg) ==
    CHOOSE i \in Drivers(stmts, reg) : \A j \in Drivers(stmts, reg) : j <= i

\* The value a register holds after the next usb clock edge.
NextValue(reg) ==
    IF Drivers(usb_statements, reg) = {}
    THEN Signal(reg)
    ELSE Signal(usb_statements[LastDriver(usb_statements, reg)].rhs)

\* ep1_out moves to its next byte in a cycle where its stream is valid and ready.
EndpointAdvances == ep_valid /\ ep_ready

\* SynthModule takes a byte in a cycle where midi_stream is valid and ready.
SynthAccepts == midi_valid /\ midi_ready

----------------------------------------------------------------------------
(* The state machine *)

Init ==
    /\ with_midi_in \in BOOLEAN
    /\ phase = "constructed"
    /\ descriptors = NoDescriptors
    /\ endpoints = <<>>
    /\ fifo = <<>>
    /\ hostBytes = 0
    /\ ep_ready = FALSE
    /\ midi_valid = FALSE
    /\ midi_payload = 0
    /\ midi_ready \in BOOLEAN
    /\ delivered = <<>>
    /\ observed = <<>>
    /\ cycle = 0
    /\ setup = NoSetup
    /\ gateStalled = FALSE
    /\ response = [k \in DescriptorKinds |-> NoResponse]
    /\ served = 0

\* JT51Synth.elaborate: build the descriptors, add the endpoints.
Elaborate ==
    /\ phase = "constructed"
    /\ phase' = "elaborated"
    /\ descriptors' = create_descriptors(with_midi_in)
    /\ endpoints' = addedEndpoints(with_midi_in)
    /\ UNCHANGED <<with_midi_in, streamVars, controlVars, descriptorVars>>

\* The host writes one byte to EP1 OUT; the endpoint buffers it.
HostWrite(b) ==
    /\ phase = "elaborated"
    /\ hostBytes < MaxHostBytes
    /\ fifo' = Append(fifo, b)
    /\ hostBytes' = hostBytes + 1
    /\ UNCHANGED <<buildVars, ep_ready, midi_valid, midi_payload, midi_ready,
                   delivered, observed, cycle, controlVars, descriptorVars>>

\* One edge of the usb clock: the endpoint and SynthModule act on the
\* handshakes of the ending cycle, the registers load, and SynthModule
\* drives midi_stream.ready for the next cycle.
UsbClock(nextReady) ==
    /\ phase = "elaborated"
    /\ cycle < MaxCycles
    /\ cycle' = cycle + 1
    /\ fifo' = IF EndpointAdvances THEN Tail(fifo) ELSE fifo
    /\ delivered' = IF EndpointAdvances
                    THEN Append(delivered, ep_payload) ELSE delivered
    /\ observed' = IF SynthAccepts
                   THEN Append(observed, midi_payload) ELSE observed
    /\ ep_ready' = NextValue("ep1_out.stream.ready")
    /\ midi_valid' = NextValue("midi_stream.valid")
    /\ midi_payload' = NextValue("midi_stream.payload")
    /\ midi_ready' = nextReady
    /\ UNCHANGED <<buildVars, hostBytes, controlVars, descriptorVars>>

\* Variant of ControlRequest: a stalled request also empties ep1_out.
ControlRequest_flush(type, request) ==
    /\ phase = "elaborated"
    /\ setup' = [type |-> type, request |-> request]
    /\ gateStalled' = stall_condition(setup')
    /\ fifo' = IF gateStalled' THEN <<>> ELSE fifo
    /\ UNCHANGED <<buildVars, hostBytes, ep_ready, midi_valid, midi_payload,
                   midi_ready, delivered, observed, cycle, descriptorVars>>

\* A control request arrives; the StallOnlyRequestHandler stalls it when
\* stall_condition holds of its setup packet.
ControlRequest(type, request) ==
    /\ phase = "elaborated"
    /\ setup' = [type |-> type, request |-> request]
    /\ gateStalled' = stall_condition(setup')
    /\ UNCHANGED <<buildVars, streamVars, descriptorVars>>

\* Variant of GetDescriptor: the descriptors are rebuilt per request from
\* state that changes between requests.
GetDescriptor_rebuild(kind) ==
    /\ phase = "elaborated"
    /\ served < MaxServed
    /\ served' = served + 1
    /\ response' = [response EXCEPT ![kind] =
                       IF kind = "Device"
                       THEN <<create_descriptors(served = 0).device>>
                       ELSE <<create_descriptors(served = 0).config>>]
    /\ UNCHANGED <<buildVars, streamVars, controlVars>>

\* The standard control endpoint answers GET_DESCRIPTOR from the collection
\* elaborate handed to add_standard_control_endpoint.
GetDescriptor(kind) ==
    /\ phase = "elaborated"
    /\ served < MaxServed
    /\ served' = served + 1
    /\ response' = [response EXCEPT ![kind] =
                       IF kind = "Device"
                       THEN <<descriptors.device>>
                       ELSE <<descriptors.config>>]
    /\ UNCHANGED <<buildVars, streamVars, controlVars>>

Next ==
    \/ Elaborate
    \/ \E b \in Bytes : HostWrite(b)
    \/ \E r \in BOOLEAN : UsbClock(r)
    \/ \E t \in RequestTypes, q \in RequestCodes : ControlRequest(t, q)
    \/ \E k \in DescriptorKinds : GetDescriptor(k)

Spec == Init /\ [][Next]_vars

----------------------------------------------------------------------------
(* Reading the descriptor set *)

Subs == descriptors.config.streamingInterface

IsJack(d) == d.emitter \in {"MidiInJack", "MidiOutJack"}

IsStandardEndpoint(d) ==
    d.emitter \in {"StandardMidiStreamingBulkDataEndpoint",
                   "StandardMidiStreamingDataEndpoint"}

IsClassSpecificEndpoint(d) ==
    d.emitter = "ClassSpecificMidiStreamingBulkDataEndpoint"

JackIndices == {i \in 1..Len(Subs) : IsJack(Subs[i])}

StandardEndpointIndices == {i \in 1..Len(Subs) : IsStandardEndpoint(Subs[i])}

ClassSpecificEndpointIndices ==
    {i \in 1..Len(Subs) : IsClassSpecificEndpoint(Subs[i])}

EndpointIndices == StandardEndpointIndices \cup ClassSpecificEndpointIndices

JackIDs == {Subs[i].bJackID : i \in JackIndices}

JackWithID(id) == Subs[CHOOSE i \in JackIndices : Subs[i].bJackID = id]

Elements(sq) == {sq[i] : i \in 1..Len(sq)}

\* The IDs of the jack descriptors in the order of emission.
JackIDSeq ==
    LET jacks == SelectSeq(Subs, IsJack)
    IN  [i \in 1..Len(jacks) |-> jacks[i].bJackID]

\* An endpoint descriptor pair: a standard endpoint descriptor directly
\* followed by a class-specific one.  Those are the positions of the
\* class-specific halves.
PairIndices ==
    {i \in ClassSpecificEndpointIndices :
        i > 1 /\ (i - 1) \in StandardEndpointIndices}

\* The position of the class-specific descriptor associated with a jack.
PairOfJack(id) == CHOOSE i \in PairIndices : Subs[i].assoc = <<id>>

IsPrefix(a, b) ==
    /\ Len(a) <= Len(b)
    /\ \A i \in 1..Len(a) : a[i] = b[i]

\* The bytes ep1_out.stream delivers: those it has handed over, then those it
\* still holds.
EndpointBytes == delivered \o fifo

\* Nothing is left in the endpoint or on its way to SynthModule.
Drained == fifo = <<>> /\ ~midi_valid

----------------------------------------------------------------------------
(* The claims *)

\* C1: the bytes observed as valid on synthmodule.midi_stream are the bytes
\* ep1_out.stream delivers, in the same order: at every moment the observed
\* sequence is a prefix of the endpoint's byte sequence (no duplicate, no
\* reordering), and once the path is drained it is that whole sequence (no
\* loss).
C1_StreamPreserved ==
    /\ IsPrefix(observed, EndpointBytes)
    /\ (Drained => observed = EndpointBytes)

\* C2: in every usb clock cycle after reset ep1_out.stream.ready is asserted,
\* whatever midi_stream.ready is and whatever elaborate adds after the ready
\* assignment.
C2_AlwaysReady ==
    (phase = "elaborated" /\ cycle >= 1) => ep_ready

\* C3: bNumEndpoints of the streaming interface descriptor equals the number
\* of stream endpoints elaborate adds and the number of standard endpoint
\* descriptors emitted: 1 without with_midi_in, 2 with it.
C3_EndpointCount ==
    phase = "elaborated" =>
        /\ descriptors.config.interface.bNumEndpoints = Len(endpoints)
        /\ descriptors.config.interface.bNumEndpoints
              = Cardinality(StandardEndpointIndices)
        /\ Len(endpoints) = (IF with_midi_in THEN 2 ELSE 1)

C3_Witness ==
    /\ phase = "elaborated"
    /\ with_midi_in
    /\ Len(endpoints) = 2
    /\ descriptors.config.interface.bNumEndpoints = 2

\* C4: the gate stalls a control request if and only if its type is Vendor
\* or Reserved, whatever its request code; a Standard or Class request is
\* never stalled by the gate.
C4_GateStallsVendorReserved ==
    /\ setup.type \in {"VENDOR", "RESERVED"} => gateStalled
    /\ setup.type \in {"STANDARD", "CLASS"} => ~gateStalled
    /\ setup = NoSetup => ~gateStalled

C4_Witness ==
    /\ setup.type = "RESERVED"
    /\ setup.request = "SET_FEATURE"
    /\ gateStalled

\* C5: every jack ID referenced as a source of a jack or as the associated
\* jack of a class-specific endpoint descriptor is the ID of an emitted jack,
\* and no two emitted jacks share an ID.
C5_JackReferences ==
    phase = "elaborated" =>
        /\ \A i \in JackIndices : Elements(Subs[i].sources) \subseteq JackIDs
        /\ \A i \in ClassSpecificEndpointIndices :
              Elements(Subs[i].assoc) \subseteq JackIDs
        /\ \A i, j \in JackIndices :
              Subs[i].bJackID = Subs[j].bJackID => i = j

C5_Witness ==
    /\ phase = "elaborated"
    /\ ~with_midi_in
    /\ \E i \in JackIndices : Subs[i].sources = <<3>>
    /\ \E i \in ClassSpecificEndpointIndices : Subs[i].assoc = <<3>>

\* C6: with with_midi_in the IN endpoint descriptor carries endpoint number 1
\* and direction IN, the OUT endpoint descriptor number 1 and direction OUT,
\* and both descriptors and both stream endpoints use packet size 512.
C6_InEndpointAddress ==
    (phase = "elaborated" /\ with_midi_in) =>
        LET inD  == Subs[PairOfJack(1) - 1]
            outD == Subs[PairOfJack(3) - 1]
        IN  /\ AddressNumber(inD.bEndpointAddress) = 1
            /\ AddressDirection(inD.bEndpointAddress) = USBDirection_IN
            /\ AddressNumber(outD.bEndpointAddress) = 1
            /\ AddressDirection(outD.bEndpointAddress) = USBDirection_OUT
            /\ inD.wMaxPacketSize = 512
            /\ outD.wMaxPacketSize = 512
            /\ \A i \in 1..Len(endpoints) : endpoints[i].max_packet_size = 512

\* C7: the jack graph is determined by with_midi_in alone.  Without it the
\* set holds exactly jacks 3 (EMBEDDED IN) and 4 (EXTERNAL OUT, source 3),
\* one endpoint descriptor pair and nothing of the IN path; with it, exactly
\* jacks 1 to 4, jack 1 EMBEDDED OUT with source jack 2, jack 2 EXTERNAL IN,
\* and two endpoint descriptor pairs.
C7_JackGraph ==
    phase = "elaborated" =>
        /\ JackIDs = (IF with_midi_in THEN {1, 2, 3, 4} ELSE {3, 4})
        /\ Cardinality(JackIndices) = Cardinality(JackIDs)
        /\ JackWithID(3) = Jack("MidiInJack", 3, "EMBEDDED", <<>>)
        /\ JackWithID(4) = Jack("MidiOutJack", 4, "EXTERNAL", <<3>>)
        /\ Cardinality(PairIndices) = (IF with_midi_in THEN 2 ELSE 1)
        /\ Cardinality(EndpointIndices) = 2 * Cardinality(PairIndices)
        /\ Len(Subs) = Cardinality(JackIndices) + Cardinality(EndpointIndices)
        /\ with_midi_in =>
              /\ JackWithID(1) = Jack("MidiOutJack", 1, "EMBEDDED", <<2>>)
              /\ JackWithID(2) = Jack("MidiInJack", 2, "EXTERNAL", <<>>)
        /\ ~with_midi_in =>
              \A i \in ClassSpecificEndpointIndices : Subs[i].assoc = <<3>>

C7_Witness ==
    /\ phase = "elaborated"
    /\ ~with_midi_in
    /\ JackIDs = {3, 4}
    /\ Len(Subs) = 4

\* C8: a Vendor-type control request, which the gate stalls, changes nothing
\* of the stream path: the endpoint's buffer, ready, valid and payload and
\* the bytes handed to midi_stream stay as they are.
C8_StallLeavesStream ==
    [][ ((setup' # setup \/ gateStalled' # gateStalled)
            /\ setup'.type = "VENDOR")
        => (gateStalled' /\ UNCHANGED streamVars) ]_vars

C8_Witness ==
    /\ setup.type = "VENDOR"
    /\ gateStalled
    /\ fifo # <<>>
    /\ midi_valid
    /\ delivered # <<>>

\* C9: for a fixed with_midi_in, repeated requests for the Device or the
\* Configuration descriptor return the identical content every time, and
\* serving a request does not change the descriptor set.
C9_DescriptorsStable ==
    [][ /\ \A k \in DescriptorKinds :
              response[k] # <<>> => response'[k] = response[k]
        /\ phase = "elaborated" => descriptors' = descriptors
        /\ with_midi_in' = with_midi_in ]_vars

C9_Witness ==
    /\ served = 2
    /\ with_midi_in
    /\ response["Configuration"] # <<>>
    /\ response["Device"] = <<>>

\* C10 as claimed: the jack descriptors are emitted in the order 3, 4 and,
\* with with_midi_in, then 1, 2; all jacks precede the endpoint descriptor
\* pairs, and the OUT endpoint pair precedes the IN endpoint pair.
C10_ClaimedJackOrder ==
    phase = "elaborated" =>
        /\ JackIDSeq = <<3, 4>> \o (IF with_midi_in THEN <<1, 2>> ELSE <<>>)
        /\ \A i \in JackIndices, j \in EndpointIndices : i < j
        /\ with_midi_in => PairOfJack(3) < PairOfJack(1) - 1

\* C10 as amended: with with_midi_in the jack descriptors are emitted in the
\* order 1, 2, 3, 4, without it 3, 4; all jacks precede the endpoint
\* descriptor pairs, and the pair of the OUT endpoint (associated jack 3)
\* precedes the pair emitted for the IN endpoint (associated jack 1).
C10_JackOrder ==
    phase = "elaborated" =>
        /\ JackIDSeq = (IF with_midi_in THEN <<1, 2>> ELSE <<>>) \o <<3, 4>>
        /\ \A i \in JackIndices, j \in EndpointIndices : i < j
        /\ with_midi_in => PairOfJack(3) < PairOfJack(1) - 1

C10_Witness ==
    /\ phase = "elaborated"
    /\ with_midi_in
    /\ Len(Subs) = 8
    /\ JackIDSeq[1] = 1

====
